---- MODULE Spec2Model ----
(***************************************************************************)
(* Model of the assessment-matrix path of app.py: the courses and          *)
(* assessments tables of the record store, the reconciling load            *)
(* (load_assessments_for_course), the validating delete-then-insert save   *)
(* (save_assessments_for_course), the cascading course delete              *)
(* (delete_course_for_instructor) and the session steps of main_view that  *)
(* call them.                                                              *)
(*                                                                         *)
(* Numbers are floats of the program that are multiples of 0.25, held as   *)
(* integers counting quarters of a percent (400 is 100.0): such floats add *)
(* exactly, so sums and comparisons are those of the program.              *)
(* A cell that may be missing (NaN / None / null) is <<>> when missing and *)
(* <<v>> when it holds v.  A string is the sequence of its pieces, where a *)
(* piece is either one whitespace character " " or a maximal run of text.  *)
(***************************************************************************)
EXTENDS Integers, Sequences, FiniteSets, TLC

\* ------------------------------------------------------------ bounds
MaxCourses == 2      \* course rows ever inserted in one behaviour
MaxTableRows == 22   \* rows the assessments table holds when two sessions save

\* ------------------------------------------------------------ values
None == <<>>
Some(v) == <<v>>
IsNone(c) == c = <<>>
Val(c) == c[1]

\* n percent, in quarters of a percent
PerCent(n) == 4 * n
\* 0.25, 0.5 and 0.75 percent
Quarter == PerCent(1) \div 4
Half == PerCent(1) \div 2

\* A text without surrounding whitespace, as a string
Str(t) == IF t = "" THEN <<>> ELSE <<t>>

RECURSIVE lstrip(_)
lstrip(s) == IF s # <<>> /\ Head(s) = " " THEN lstrip(Tail(s)) ELSE s

RECURSIVE rstrip(_)
rstrip(s) ==
    IF s # <<>> /\ s[Len(s)] = " " THEN rstrip(SubSeq(s, 1, Len(s) - 1)) ELSE s

\* str.strip()
strip(s) == rstrip(lstrip(s))

\* Series.fillna(v)
fillna(c, v) == IF IsNone(c) THEN Some(v) ELSE c

\* ------------------------------------------------------------ registry
ASSESSMENT_TYPES ==
    << "In-person exam/quiz, closed resources, no AI",
       "In-person exam/quiz, limited resources (notes/book), no AI",
       "In-person exam/quiz, open resources, AI allowed",
       "Online timed exam/quiz, closed resources, no AI",
       "Online timed exam/quiz, limited resources (notes/book), no AI",
       "Online timed exam/quiz, open resources, AI allowed",
       "Out-of-class untimed exam/quiz, closed resources, no AI",
       "Out-of-class untimed exam/quiz, limited resources (notes/book), no AI",
       "Out-of-class untimed exam/quiz, open resources, AI allowed",
       "In-person participation/presentations, no AI",
       "In-person participation/presentations, AI allowed" >>

\* The label cell of registry entry i
TypeLabel(i) == Some(Str(ASSESSMENT_TYPES[i]))

\* ------------------------------------------------------------ sequences
RECURSIVE Flatten(_)
Flatten(ss) == IF ss = <<>> THEN <<>> ELSE Head(ss) \o Flatten(Tail(ss))

RECURSIVE SumSeq(_)
SumSeq(s) == IF s = <<>> THEN 0 ELSE Head(s) + SumSeq(Tail(s))

\* ------------------------------------------------------------ store
\* select(...).eq("instructor_code", i).eq("course_code", c): the rows, in table order
RowsFor(table, i, c) ==
    SelectSeq(table, LAMBDA r : r.instructor_code = i /\ r.course_code = c)

\* The delete with its two filter values swapped: it matches no row
DeleteForSwapped(table, i, c) ==
    SelectSeq(table, LAMBDA r : ~(r.instructor_code = c /\ r.course_code = i))

\* delete().eq("instructor_code", i).eq("course_code", c)
DeleteFor(table, i, c) ==
    SelectSeq(table, LAMBDA r : ~(r.instructor_code = i /\ r.course_code = c))

\* The four matrix columns of a row
MatrixRow(r) ==
    [assessment_type |-> r.assessment_type,
     percent_of_class_assessment |-> r.percent_of_class_assessment,
     ai_misuse_susceptibility |-> r.ai_misuse_susceptibility,
     modification_level |-> r.modification_level]

\* ------------------------------------------------------------ load
\* The default without its seed: 0 on every row
DefaultMatrixUnseeded ==
    [i \in 1..Len(ASSESSMENT_TYPES) |->
        [assessment_type |-> TypeLabel(i),
         percent_of_class_assessment |-> Some(0),
         ai_misuse_susceptibility |-> Some(0),
         modification_level |-> Some(0)]]

\* The matrix returned when no row is stored: 100 on the first row, 0 elsewhere
DefaultMatrix ==
    [i \in 1..Len(ASSESSMENT_TYPES) |->
        [assessment_type |-> TypeLabel(i),
         percent_of_class_assessment |->
             IF i = 1 THEN Some(PerCent(100)) ELSE Some(0),
         ai_misuse_susceptibility |-> Some(0),
         modification_level |-> Some(0)]]

\* The merge with zeros where no stored row matches
MergeRowsZeroFill(i, data) ==
    LET hits == SelectSeq(data, LAMBDA r : r.assessment_type = TypeLabel(i))
    IN  IF hits = <<>>
        THEN << [assessment_type |-> TypeLabel(i),
                 percent_of_class_assessment |-> Some(0),
                 ai_misuse_susceptibility |-> Some(0),
                 modification_level |-> Some(0)] >>
        ELSE [j \in 1..Len(hits) |-> MatrixRow(hits[j])]

\* The rows a left merge yields for registry entry i: every stored row with
\* exactly that label, in stored order, or one row of missing values
MergeRows(i, data) ==
    LET hits == SelectSeq(data, LAMBDA r : r.assessment_type = TypeLabel(i))
    IN  IF hits = <<>>
        THEN << [assessment_type |-> TypeLabel(i),
                 percent_of_class_assessment |-> None,
                 ai_misuse_susceptibility |-> None,
                 modification_level |-> None] >>
        ELSE [j \in 1..Len(hits) |-> MatrixRow(hits[j])]

\* df_types.merge(df_db, on="assessment_type", how="left")
MergeLeft(data) ==
    Flatten([i \in 1..Len(ASSESSMENT_TYPES) |-> MergeRows(i, data)])

load_assessments_for_course(table, instructor_code, course_code) ==
    LET data == RowsFor(table, instructor_code, course_code)
    IN  IF data = <<>> THEN DefaultMatrix ELSE MergeLeft(data)

\* ------------------------------------------------------------ save
\* df["percent_of_class_assessment"].fillna(0).sum()
Total(df) ==
    SumSeq([i \in 1..Len(df) |-> Val(fillna(df[i].percent_of_class_assessment, 0))])

Abs(x) == IF x < 0 THEN -x ELSE x

\* The validation without abs(): a total below 100 passes
AcceptsNoAbs(total) == ~(total - PerCent(100) > Half)

\* The validation with >= for >: a total 0.5 away from 100 is refused
AcceptsStrict(total) == ~(Abs(total - PerCent(100)) >= Half)

\* not (abs(total - 100.0) > 0.5)
Accepts(total) == ~(Abs(total - PerCent(100)) > Half)

\* f"{total:.1f}": the total in tenths of a percent, rounded to nearest and, on
\* a tie, to the even tenth (the totals here are exact binary fractions)
Format1f(total) ==
    LET n == total * 10
        lo == n \div PerCent(1)
        rem == n % PerCent(1)
    IN  IF 2 * rem < PerCent(1) THEN lo
        ELSE IF 2 * rem > PerCent(1) THEN lo + 1
        ELSE IF lo % 2 = 0 THEN lo ELSE lo + 1

\* rows = df[cols].to_dict(orient="records") after the fills and the stamping
SaveRows(instructor_code, course_code, df) ==
    [i \in 1..Len(df) |->
        [instructor_code |-> instructor_code,
         course_code |-> course_code,
         assessment_type |->
             Some(strip(Val(fillna(df[i].assessment_type, <<>>)))),
         percent_of_class_assessment |->
             fillna(df[i].percent_of_class_assessment, 0),
         ai_misuse_susceptibility |-> fillna(df[i].ai_misuse_susceptibility, 0),
         modification_level |-> fillna(df[i].modification_level, 0)]]

\* ------------------------------------------------------------ inputs
\* Access codes of the instructors table (provisioned outside the program)
Instructors == { <<"code-1">>, <<"code-2">> }

\* What is typed into "Instructor code"
LoginInputs == { <<"code-1">>, <<" ", "code-2">>, <<"code-9">> }

\* What is typed into "Course code": one code with surrounding whitespace,
\* one without, and a blank entry
CourseCodeInputs ==
    { <<" ", "ACCT 2001", " ">>, <<"MKTG 3000">>, <<" ">> }

\* The other fields of the course forms
CourseInfos ==
    { [course_title |-> <<"Intro">>, term |-> <<"Fall 2025">>,
       level |-> "Undergraduate", modality |-> "In person",
       approx_students |-> 40],
      [course_title |-> <<"Topics", " ">>, term |-> <<"Spring 2026">>,
       level |-> "Graduate", modality |-> "Online asynchronous",
       approx_students |-> 0] }

\* The cells the editor changes and the values it sets them to (a cleared
\* cell is missing)
PercentEdits == {<<1, None>>, <<2, Some(PerCent(100))>>}
ScoreCells == {<<2, "ai_misuse_susceptibility">>}
ScoreInputs == {Some(PerCent(30))}

\* ------------------------------------------------------------ state
VARIABLES
    courses,      \* the courses table: a set of rows, ids in creation order
    assessments,  \* the assessments table: its rows, in insertion order
    nextId,       \* the id the store gives the next course row
    code,         \* session -> st.session_state["code"] (None: not logged in)
    pc,           \* session -> where the session's handler stands
    selected,     \* session -> the selected course row (None: none)
    loaded,       \* session -> the frame the last run gave the data editor
    edits,        \* session -> the cells changed in the data editor
    rows,         \* session -> the rows a running save is about to insert
    outcome       \* session -> what the last handler reported

vars ==
    <<courses, assessments, nextId, code, pc, selected, loaded, edits, rows, outcome>>

Sessions == DOMAIN pc

Report(kind) == [kind |-> kind, total |-> None]

\* ------------------------------------------------------------ editor
\* pd.DataFrame({"assessment_type": ASSESSMENT_TYPES}): the frame the editor
\* gets when the load raised, the label column only
LabelsOnly ==
    [i \in 1..Len(ASSESSMENT_TYPES) |-> [assessment_type |-> TypeLabel(i)]]

\* The value the editor returns for a cell: the edit made to it, if any
Cell(E, k, col, old) ==
    IF \E e \in E : e.row = k /\ e.col = col
    THEN (CHOOSE e \in E : e.row = k /\ e.col = col).val
    ELSE old

\* edited_df = st.data_editor(assessments_df, ...): the frame with the edits
Apply(frame, E) ==
    IF E = {} THEN frame
    ELSE [k \in DOMAIN frame |->
            [assessment_type |-> frame[k].assessment_type,
             percent_of_class_assessment |->
                 Cell(E, k, "percent_of_class_assessment",
                      frame[k].percent_of_class_assessment),
             ai_misuse_susceptibility |->
                 Cell(E, k, "ai_misuse_susceptibility",
                      frame[k].ai_misuse_susceptibility),
             modification_level |->
                 Cell(E, k, "modification_level", frame[k].modification_level)]]

\* The editor's edits with one cell set
WithEdit(E, k, col, v) ==
    {e \in E : ~(e.row = k /\ e.col = col)} \cup {[row |-> k, col |-> col, val |-> v]}

\* The edits the editor has in a run that gives it frame l for course c: it
\* is keyed by the course id; its edits stay while it gets the same frame,
\* and when the frame differs they stay (keep) or are dropped, by the build
\* of the framework
EditsIn(s, c, l, keep) ==
    IF /\ selected[s] # None
       /\ Val(selected[s]).id = c.id
       /\ (l = loaded[s] \/ (keep /\ loaded[s] # LabelsOnly))
    THEN edits[s] ELSE {}

\* The builds to tell apart: none when either gives the same edits
Builds(s, c, l) ==
    IF EditsIn(s, c, l, TRUE) = EditsIn(s, c, l, FALSE) THEN {FALSE} ELSE BOOLEAN

\* session -> the matrix in the editor
df == [s \in Sessions |-> Apply(loaded[s], edits[s])]

\* ------------------------------------------------------------ courses
\* load_courses_for_instructor: newest first (ids grow with created_at)
RECURSIVE NewestFirst(_)
NewestFirst(cs) ==
    IF cs = {} THEN <<>>
    ELSE LET c == CHOOSE x \in cs : \A y \in cs : y.id <= x.id
         IN  <<c>> \o NewestFirst(cs \ {c})

load_courses_for_instructor(table, instructor_code) ==
    NewestFirst({c \in table : c.instructor_code = instructor_code})

\* f"{c['course_code']} - {c.get('course_title', '') or ''}": the two
\* strings joined into one by a blank, a dash (the piece "--") and a blank
Label(c) == c.course_code \o <<" ", "--", " ">> \o c.course_title

\* options = {label: c for c in courses}: of the courses under one label the
\* last of the list stays
Options(cs) ==
    {cs[i] : i \in {j \in DOMAIN cs :
        \A k \in DOMAIN cs : Label(cs[k]) = Label(cs[j]) => k <= j}}

\* labels = list(options.keys()): each label once, at its first place
Labels(cs) ==
    LET first == {j \in DOMAIN cs :
                    \A k \in DOMAIN cs : Label(cs[k]) = Label(cs[j]) => j <= k}
        F[n \in 0..Len(cs)] ==
            IF n = 0 THEN <<>>
            ELSE IF n \in first THEN Append(F[n - 1], Label(cs[n])) ELSE F[n - 1]
    IN  F[Len(cs)]

\* options[label]
Pick(label, cs) == CHOOSE c \in Options(cs) : Label(c) = label

\* st.selectbox("Select a course", labels) in a run that follows a run with
\* the course list old: no course, no selection; the same labels, the label
\* chosen before; a label that is gone, the first label.  When the labels
\* changed and the chosen one is still among them the widget keeps it or
\* falls back to the first, by the build of the framework (keepSel)
Selection(old, new, sel, keepSel) ==
    IF new = <<>> THEN None
    ELSE IF /\ sel # None
            /\ \E c \in Options(new) : Label(c) = Label(Val(sel))
            /\ (Labels(old) = Labels(new) \/ keepSel)
         THEN Some(Pick(Label(Val(sel)), new))
         ELSE Some(Pick(Label(new[1]), new))

\* ------------------------------------------------------------ page
\* What a run of main_view leaves on the page of instructor instr when the
\* selectbox gives sel and the assessments table is table: the course, the
\* frame loaded for it, and the edits of the editor
Page(s, instr, table, sel) ==
    /\ selected' = [selected EXCEPT ![s] = sel]
    /\ IF sel = None
       THEN /\ loaded' = [loaded EXCEPT ![s] = <<>>]
            /\ edits' = [edits EXCEPT ![s] = {}]
       ELSE LET l == load_assessments_for_course(table, instr, Val(sel).course_code)
            IN  /\ loaded' = [loaded EXCEPT ![s] = l]
                /\ \E keep \in Builds(s, Val(sel), l) :
                    edits' = [edits EXCEPT ![s] = EditsIn(s, Val(sel), l, keep)]

\* The rest of a run whose handler left the courses as they were
SamePage(s) ==
    LET cs == load_courses_for_instructor(courses, Val(code[s]))
    IN  Page(s, Val(code[s]), assessments, Selection(cs, cs, selected[s], TRUE))

\* The run that st.rerun() starts after a handler changed the courses table
Rerun(s, after) ==
    LET old == load_courses_for_instructor(courses, Val(code[s]))
        new == load_courses_for_instructor(after, Val(code[s]))
    IN  \E sel \in {Selection(old, new, selected[s], k) : k \in BOOLEAN} :
            Page(s, Val(code[s]), assessments, sel)

\* ------------------------------------------------------------ session
\* Every click runs the script once, which clears what the run before
\* reported: outcome is what the last run left on the page.
\* login_view, "Log in": a blank code is refused; the stripped code is looked
\* up in the instructors table (ok: the lookup does not raise); a known code
\* logs in, and the rerun shows main_view with the first course selected
login_view(s, typed) ==
    /\ pc[s] = "login"
    /\ LET c == strip(typed)
       IN  \/ /\ c = <<>>
              /\ outcome' = [outcome EXCEPT ![s] = Report("Please enter a code.")]
              /\ UNCHANGED <<code, pc, selected, loaded, edits>>
           \/ /\ c # <<>>
              /\ outcome' = [outcome EXCEPT ![s] =
                    Report("problem connecting to the database")]
              /\ UNCHANGED <<code, pc, selected, loaded, edits>>
           \/ /\ c # <<>> /\ c \in Instructors
              /\ code' = [code EXCEPT ![s] = Some(c)]
              /\ pc' = [pc EXCEPT ![s] = "main"]
              /\ outcome' = [outcome EXCEPT ![s] = Report("")]
              /\ LET cs == load_courses_for_instructor(courses, c)
                 IN  Page(s, c, assessments, Selection(cs, cs, None, TRUE))
           \/ /\ c # <<>> /\ c \notin Instructors
              /\ outcome' = [outcome EXCEPT ![s] = Report("Invalid code.")]
              /\ UNCHANGED <<code, pc, selected, loaded, edits>>
    /\ UNCHANGED <<courses, assessments, nextId, rows>>

\* "Log out": st.session_state.clear() and the rerun shows login_view
Logout(s) ==
    /\ pc[s] = "main"
    /\ code' = [code EXCEPT ![s] = None]
    /\ pc' = [pc EXCEPT ![s] = "login"]
    /\ selected' = [selected EXCEPT ![s] = None]
    /\ loaded' = [loaded EXCEPT ![s] = <<>>]
    /\ edits' = [edits EXCEPT ![s] = {}]
    /\ outcome' = [outcome EXCEPT ![s] = Report("")]
    /\ UNCHANGED <<courses, assessments, nextId, rows>>

\* main_view, "Add course": a blank code is refused; else the stripped code
\* goes to add_course_for_instructor, which inserts one course row, and the
\* page is run again; when the insert raises the error is shown
add_course_for_instructor(s, typed, info) ==
    /\ pc[s] = "main"
    /\ nextId <= MaxCourses
    /\ \/ /\ strip(typed) = <<>>
          /\ outcome' = [outcome EXCEPT ![s] = Report("Course code is required.")]
          /\ SamePage(s)
          /\ UNCHANGED <<courses, nextId>>
       \/ /\ strip(typed) # <<>>
          /\ outcome' = [outcome EXCEPT ![s] =
                Report("error while saving this course")]
          /\ SamePage(s)
          /\ UNCHANGED <<courses, nextId>>
       \/ /\ strip(typed) # <<>>
          /\ LET after == courses \cup
                    {[id |-> nextId,
                      instructor_code |-> Val(code[s]),
                      course_code |-> strip(typed),
                      course_title |-> strip(info.course_title),
                      term |-> strip(info.term),
                      level |-> info.level,
                      modality |-> info.modality,
                      approx_students |-> info.approx_students]}
             IN  /\ courses' = after
                 /\ Rerun(s, after)
          /\ nextId' = nextId + 1
          /\ outcome' = [outcome EXCEPT ![s] = Report("")]
    /\ UNCHANGED <<assessments, code, pc, rows>>

\* "Select a course": the run with the chosen label loads its matrix
SelectCourse(s, c) ==
    /\ pc[s] = "main"
    /\ c \in Options(load_courses_for_instructor(courses, Val(code[s])))
    /\ Page(s, Val(code[s]), assessments, Some(c))
    /\ outcome' = [outcome EXCEPT ![s] = Report("")]
    /\ UNCHANGED <<courses, assessments, nextId, code, pc, rows>>

\* "Save course changes": every field but the course code is replaced and
\* the page is run again; when the update raises the error is shown
update_course_for_instructor(s, info) ==
    /\ pc[s] = "main"
    /\ selected[s] # None
    /\ \/ LET old == Val(selected[s])
              new == [old EXCEPT !.course_title = strip(info.course_title),
                                 !.term = strip(info.term),
                                 !.level = info.level,
                                 !.modality = info.modality,
                                 !.approx_students = info.approx_students]
              after == {IF c.id = old.id /\ c.instructor_code = Val(code[s])
                        THEN new ELSE c : c \in courses}
          IN  /\ courses' = after
              /\ Rerun(s, after)
              /\ outcome' = [outcome EXCEPT ![s] = Report("")]
       \/ /\ outcome' = [outcome EXCEPT ![s] = Report("error updating this course")]
          /\ SamePage(s)
          /\ UNCHANGED courses
    /\ UNCHANGED <<assessments, nextId, code, pc, rows>>

\* The data editor: one numeric cell of the matrix the editor shows is set
\* or cleared, and the run that the edit starts loads the frame again.  With
\* the same frame the edit joins the editor's edits; with another frame it
\* joins them in the build that keeps them, and in the build that drops them
\* it is dropped with them, made as it was in the editor of the old frame
EditCell(s, k, col, v) ==
    /\ pc[s] = "main"
    /\ selected[s] # None
    /\ loaded[s] # LabelsOnly
    /\ k \in DOMAIN loaded[s]
    /\ LET l == load_assessments_for_course(
                    assessments, Val(code[s]), Val(selected[s]).course_code)
       IN  /\ loaded' = [loaded EXCEPT ![s] = l]
           /\ \E E \in {WithEdit(edits[s], k, col, v)}
                       \cup (IF l = loaded[s] THEN {} ELSE {{}}) :
                edits' = [edits EXCEPT ![s] = E]
    /\ outcome' = [outcome EXCEPT ![s] = Report("")]
    /\ UNCHANGED <<courses, assessments, nextId, code, pc, selected, rows>>

EditPercent(s, i, v) == EditCell(s, i, "percent_of_class_assessment", v)

EditScore(s, cell, v) == EditCell(s, cell[1], cell[2], v)

\* A run in which load_courses_for_instructor raises: the error is shown and
\* the page ends there, with no course selected and no editor
LoadCoursesError(s) ==
    /\ pc[s] = "main"
    /\ selected' = [selected EXCEPT ![s] = None]
    /\ loaded' = [loaded EXCEPT ![s] = <<>>]
    /\ edits' = [edits EXCEPT ![s] = {}]
    /\ outcome' = [outcome EXCEPT ![s] = Report("error loading your courses")]
    /\ UNCHANGED <<courses, assessments, nextId, code, pc, rows>>

\* A run in which load_assessments_for_course raises: the error is shown and
\* the editor gets the label column only.  When the run is that of a click on
\* "Save assessments for this course" the save of that frame raises on its
\* missing column before any store call
LoadAssessmentsError(s, saving) ==
    /\ pc[s] = "main"
    /\ selected[s] # None
    /\ loaded' = [loaded EXCEPT ![s] = LabelsOnly]
    /\ edits' = [edits EXCEPT ![s] = {}]
    /\ outcome' = [outcome EXCEPT ![s] =
            IF saving THEN Report("unexpected error while saving")
            ELSE Report("error loading the assessment data")]
    /\ UNCHANGED <<courses, assessments, nextId, code, pc, selected, rows>>

\* ------------------------------------------------------------ save steps
\* "Save assessments for this course": the run of the click loads the frame
\* again and the editor returns it with its edits; the call of
\* save_assessments_for_course on that matrix follows
SaveClick(s) ==
    /\ pc[s] = "main"
    /\ selected[s] # None
    /\ Page(s, Val(code[s]), assessments, selected[s])
    /\ pc' = [pc EXCEPT ![s] = "save"]
    /\ outcome' = [outcome EXCEPT ![s] = Report("")]
    /\ UNCHANGED <<courses, assessments, nextId, code, rows>>

\* save_assessments_for_course on the matrix the editor returned, up to and
\* with its first store call: the fills, the total, its validation and the
\* delete.  A rejected matrix raises ValueError, which main_view shows; an
\* accepted one becomes the rows to insert and the stored rows of the
\* instructor and course code are deleted
save_assessments_for_course(s) ==
    /\ pc[s] = "save"
    /\ LET total == Total(df[s])
       IN  IF Accepts(total)
           THEN /\ rows' = [rows EXCEPT ![s] =
                        SaveRows(Val(code[s]), Val(selected[s]).course_code, df[s])]
                /\ assessments' =
                        DeleteFor(assessments, Val(code[s]),
                                  Val(selected[s]).course_code)
                /\ pc' = [pc EXCEPT ![s] = "save_insert"]
                /\ outcome' = [outcome EXCEPT ![s] = Report("")]
           ELSE /\ pc' = [pc EXCEPT ![s] = "main"]
                /\ outcome' = [outcome EXCEPT ![s] =
                        [kind |-> "ValueError", total |-> Some(Format1f(total))]]
                /\ UNCHANGED <<rows, assessments>>
    /\ UNCHANGED <<courses, nextId, code, selected, loaded, edits>>

\* The insert done row by row, one store call each
SaveInsertRowByRow(s) ==
    /\ pc[s] = "save_insert"
    /\ assessments' = assessments \o SubSeq(rows[s], 1, 1)
    /\ rows' = [rows EXCEPT ![s] = Tail(rows[s])]
    /\ IF Len(rows[s]) <= 1
       THEN /\ pc' = [pc EXCEPT ![s] = "main"]
            /\ outcome' = [outcome EXCEPT ![s] = Report("Assessments saved.")]
       ELSE UNCHANGED <<pc, outcome>>
    /\ UNCHANGED <<courses, nextId, code, selected, loaded, edits>>

\* supabase.table("assessments").insert(rows).execute()
SaveInsert(s) ==
    /\ pc[s] = "save_insert"
    /\ assessments' = assessments \o rows[s]
    /\ rows' = [rows EXCEPT ![s] = <<>>]
    /\ pc' = [pc EXCEPT ![s] = "main"]
    /\ outcome' = [outcome EXCEPT ![s] = Report("Assessments saved.")]
    /\ UNCHANGED <<courses, nextId, code, selected, loaded, edits>>

\* A store call of the save raises (the store is unreachable, the write is
\* rejected): the delete, with nothing done yet, or the insert, with the
\* delete done.  main_view reports it and the handler ends there
SaveStoreError(s) ==
    /\ \/ pc[s] = "save" /\ Accepts(Total(df[s]))
       \/ pc[s] = "save_insert"
    /\ rows' = [rows EXCEPT ![s] = <<>>]
    /\ pc' = [pc EXCEPT ![s] = "main"]
    /\ outcome' = [outcome EXCEPT ![s] = Report("unexpected error while saving")]
    /\ UNCHANGED <<courses, assessments, nextId, code, selected, loaded, edits>>

\* ------------------------------------------------------------ delete steps
\* The delete without its cascade: the assessments are left in the table
DeleteCourseNoCascade(s) ==
    /\ pc[s] = "main"
    /\ selected[s] # None
    /\ pc' = [pc EXCEPT ![s] = "delete_course"]
    /\ outcome' = [outcome EXCEPT ![s] = Report("")]
    /\ UNCHANGED <<courses, assessments, nextId, code, selected, loaded, edits, rows>>

\* "Delete this course", delete_course_for_instructor, first store call: the
\* assessments of the instructor and course code
delete_course_for_instructor(s) ==
    /\ pc[s] = "main"
    /\ selected[s] # None
    /\ assessments' =
            DeleteFor(assessments, Val(code[s]), Val(selected[s]).course_code)
    /\ pc' = [pc EXCEPT ![s] = "delete_course"]
    /\ outcome' = [outcome EXCEPT ![s] = Report("")]
    /\ UNCHANGED <<courses, nextId, code, selected, loaded, edits, rows>>

\* delete_course_for_instructor, second store call: the course row; then the
\* page is run again
DeleteCourseRow(s) ==
    /\ pc[s] = "delete_course"
    /\ LET after == {c \in courses :
                ~(c.id = Val(selected[s]).id /\ c.instructor_code = Val(code[s]))}
       IN  /\ courses' = after
           /\ Rerun(s, after)
    /\ pc' = [pc EXCEPT ![s] = "main"]
    /\ outcome' = [outcome EXCEPT ![s] = Report("")]
    /\ UNCHANGED <<assessments, nextId, code, rows>>

\* A store call of the delete raises: the first, with nothing done yet, or the
\* second, with the assessments deleted and the course row still there.  The
\* error is shown and the run goes on to load the matrix of the course
DeleteStoreError(s) ==
    /\ \/ pc[s] = "main" /\ selected[s] # None
       \/ pc[s] = "delete_course"
    /\ Page(s, Val(code[s]), assessments, selected[s])
    /\ pc' = [pc EXCEPT ![s] = "main"]
    /\ outcome' = [outcome EXCEPT ![s] = Report("error deleting this course")]
    /\ UNCHANGED <<courses, assessments, nextId, code, rows>>

\* ------------------------------------------------------------ specification
\* One session at a time uses the program: an instructor logs in, manages
\* courses and matrices, logs out, and another may log in
Init ==
    /\ courses = {}
    /\ assessments = <<>>
    /\ nextId = 1
    /\ code = [s \in {1} |-> None]
    /\ pc = [s \in {1} |-> "login"]
    /\ selected = [s \in {1} |-> None]
    /\ loaded = [s \in {1} |-> <<>>]
    /\ edits = [s \in {1} |-> {}]
    /\ rows = [s \in {1} |-> <<>>]
    /\ outcome = [s \in {1} |-> Report("")]

Next ==
    \/ \E s \in Sessions, typed \in LoginInputs : login_view(s, typed)
    \/ \E s \in Sessions : Logout(s)
    \/ \E s \in Sessions, typed \in CourseCodeInputs, info \in CourseInfos :
            add_course_for_instructor(s, typed, info)
    \/ \E s \in Sessions, c \in courses : SelectCourse(s, c)
    \/ \E s \in Sessions, info \in CourseInfos :
            update_course_for_instructor(s, info)
    \/ \E s \in Sessions, e \in PercentEdits : EditPercent(s, e[1], e[2])
    \/ \E s \in Sessions : LoadCoursesError(s)
    \/ \E s \in Sessions, saving \in BOOLEAN : LoadAssessmentsError(s, saving)
    \/ \E s \in Sessions : SaveClick(s)
    \/ \E s \in Sessions : save_assessments_for_course(s)
    \/ \E s \in Sessions : SaveInsert(s)
    \/ \E s \in Sessions : SaveStoreError(s)
    \/ \E s \in Sessions : delete_course_for_instructor(s)
    \/ \E s \in Sessions : DeleteCourseRow(s)
    \/ \E s \in Sessions : DeleteStoreError(s)

Spec == Init /\ [][Next]_vars

\* ------------------------------------------------------------ calls on given data
\* The course the calls below are made for, and two other pairs
TheInstructor == <<"code-1">>
TheCourse ==
    [id |-> 1, instructor_code |-> TheInstructor, course_code |-> <<"ACCT 2001">>,
     course_title |-> <<"Intro">>, term |-> <<"Fall 2025">>,
     level |-> "Undergraduate", modality |-> "In person", approx_students |-> 40]

\* A registry-shaped matrix: label l1 on row 1, percents p1 and p2 on rows 1
\* and 2, scores a and m on row 2, zeros elsewhere
Matrix(l1, p1, p2, a, m) ==
    [i \in 1..Len(ASSESSMENT_TYPES) |->
        [assessment_type |-> IF i = 1 THEN l1 ELSE TypeLabel(i),
         percent_of_class_assessment |->
             IF i = 1 THEN p1 ELSE IF i = 2 THEN p2 ELSE Some(0),
         ai_misuse_susceptibility |-> IF i = 2 THEN a ELSE Some(0),
         modification_level |-> IF i = 2 THEN m ELSE Some(0)]]

\* Matrices handed to save_assessments_for_course: totals of 99.25, 99.5,
\* 100, 100.5, 100.75 and 110, cleared cells, and a label that is padded or
\* missing
GivenLabels == {TypeLabel(1), Some(<<" ", ASSESSMENT_TYPES[1], " ">>), None}
GivenPercents ==
    { <<Some(PerCent(100)), Some(0)>>,
      <<Some(PerCent(100) - 3 * Quarter), None>>,
      <<Some(PerCent(100) - Half), Some(0)>>,
      <<None, Some(PerCent(100))>>,
      <<Some(PerCent(100)), Some(Half)>>,
      <<Some(PerCent(100)), Some(3 * Quarter)>>,
      <<Some(PerCent(70)), Some(PerCent(40))>> }
GivenScores == { <<Some(0), Some(0)>>, <<None, Some(PerCent(30))>> }
GivenMatrices ==
    { Matrix(l, p[1], p[2], sc[1], sc[2]) :
        l \in GivenLabels, p \in GivenPercents, sc \in GivenScores }

\* A stored row
Stored(i, c, label, p, a, m) ==
    [instructor_code |-> i, course_code |-> c, assessment_type |-> label,
     percent_of_class_assessment |-> p, ai_misuse_susceptibility |-> a,
     modification_level |-> m]

\* Rows of the assessments table before the calls.  For the course: none, a
\* saved matrix, two categories only (60 and 40), and these beside a row whose
\* label is a registry label with a trailing blank and a row of an unknown
\* category.  For another course of the instructor and for the same course
\* code of another instructor: a saved matrix each, or none
OtherRows ==
    SaveRows(TheInstructor, <<"MKTG 3000">>,
             Matrix(TypeLabel(1), Some(0), Some(PerCent(100)), Some(0), Some(0)))
    \o SaveRows(<<"code-2">>, TheCourse.course_code, DefaultMatrix)
PartialRows ==
    << Stored(TheInstructor, TheCourse.course_code, TypeLabel(4),
              Some(PerCent(40)), Some(PerCent(30)), Some(0)),
       Stored(TheInstructor, TheCourse.course_code, TypeLabel(1),
              Some(PerCent(60)), Some(0), Some(PerCent(70))) >>
ForeignRows ==
    << Stored(TheInstructor, TheCourse.course_code,
              Some(<<ASSESSMENT_TYPES[2], " ">>),
              Some(PerCent(10)), Some(0), Some(0)),
       Stored(TheInstructor, TheCourse.course_code, Some(<<"Essay">>),
              Some(PerCent(20)), Some(PerCent(50)), Some(PerCent(50))) >>
StoredTables ==
    { others \o mine :
        others \in {<<>>, OtherRows},
        mine \in { <<>>,
                   SaveRows(TheInstructor, TheCourse.course_code,
                            Matrix(TypeLabel(1), Some(PerCent(50)),
                                   Some(PerCent(50)), Some(PerCent(30)), Some(0))),
                   PartialRows,
                   ForeignRows,
                   PartialRows \o ForeignRows } }

\* The instructor is logged in with the course selected; the table holds
\* any of the stored tables and the editor any of the given matrices
InitCalls ==
    /\ courses = {TheCourse}
    /\ assessments \in StoredTables
    /\ nextId = 2
    /\ code = [s \in {1} |-> Some(TheInstructor)]
    /\ pc = [s \in {1} |-> "save"]
    /\ selected = [s \in {1} |-> Some(TheCourse)]
    /\ loaded \in [{1} -> GivenMatrices]
    /\ edits = [s \in {1} |-> {}]
    /\ rows = [s \in {1} |-> <<>>]
    /\ outcome = [s \in {1} |-> Report("")]

NextCalls ==
    \/ \E s \in Sessions, c \in courses : SelectCourse(s, c)
    \/ \E s \in Sessions : SaveClick(s)
    \/ \E s \in Sessions : save_assessments_for_course(s)
    \/ \E s \in Sessions : SaveInsert(s)
    \/ \E s \in Sessions : SaveStoreError(s)

SpecCalls == InitCalls /\ [][NextCalls]_vars

\* ------------------------------------------------------------ two sessions
\* Two sessions of one instructor have the same course open, each with the
\* loaded matrix in its editor; both edit and save with no order between
\* their store calls
InitTwo ==
    /\ courses = {TheCourse}
    /\ assessments = <<>>
    /\ nextId = 2
    /\ code = [s \in {1, 2} |-> Some(TheInstructor)]
    /\ pc = [s \in {1, 2} |-> "main"]
    /\ selected = [s \in {1, 2} |-> Some(TheCourse)]
    /\ loaded = [s \in {1, 2} |-> DefaultMatrix]
    /\ edits = [s \in {1, 2} |-> {}]
    /\ rows = [s \in {1, 2} |-> <<>>]
    /\ outcome = [s \in {1, 2} |-> Report("")]

NextTwo ==
    \/ \E s \in Sessions, c \in courses : SelectCourse(s, c)
    \/ \E s \in Sessions, cell \in ScoreCells, v \in ScoreInputs :
            EditScore(s, cell, v)
    \/ \E s \in Sessions : SaveClick(s)
    \/ \E s \in Sessions : save_assessments_for_course(s)
    \/ \E s \in Sessions :
            Len(assessments) + Len(rows[s]) <= MaxTableRows /\ SaveInsert(s)
    \/ \E s \in Sessions : SaveStoreError(s)

SpecTwo == InitTwo /\ [][NextTwo]_vars

\* ------------------------------------------------------------ claims
\* The pair a session works on and the rows stored for it
PairRows(s) == RowsFor(assessments, Val(code[s]), Val(selected[s]).course_code)
Saved(s) == outcome[s].kind = "Assessments saved."
Rejected(s) == outcome[s].kind = "ValueError"
Within(total) == Abs(total - PerCent(100)) <= Half

\* A matrix row as the save stores it: label stripped (a missing label is
\* the empty string), missing numbers 0
Normalised(r) ==
    [assessment_type |->
         IF IsNone(r.assessment_type) THEN Some(<<>>)
         ELSE Some(strip(Val(r.assessment_type))),
     percent_of_class_assessment |->
         IF IsNone(r.percent_of_class_assessment) THEN Some(0)
         ELSE r.percent_of_class_assessment,
     ai_misuse_susceptibility |->
         IF IsNone(r.ai_misuse_susceptibility) THEN Some(0)
         ELSE r.ai_misuse_susceptibility,
     modification_level |->
         IF IsNone(r.modification_level) THEN Some(0) ELSE r.modification_level]

\* C1 as stated: once a save has completed, the rows stored for the pair are
\* exactly the rows of the given matrix, one for one and in its order, each
\* with the instructor and course code of the call, and saving the same
\* matrix again would leave the table as it is.
C1_StoredRowsAreGivenMatrix ==
    \A s \in Sessions :
        Saved(s) =>
            /\ Len(PairRows(s)) = Len(df[s])
            /\ \A k \in DOMAIN PairRows(s) : MatrixRow(PairRows(s)[k]) = df[s][k]
            /\ assessments =
                   DeleteFor(assessments, Val(code[s]), Val(selected[s]).course_code)
                   \o PairRows(s)

\* C1 (amended): once a save has completed, the rows stored for the pair are
\* exactly the rows of the given matrix as the save normalises them (labels
\* stripped, a missing label empty, missing numbers 0), one for one and in
\* the matrix's order, each with the instructor and course code of the call:
\* no earlier row remains, none is doubled, and saving the same matrix again
\* would leave the table as it is.
C1_StoredRowsAreNormalisedMatrix ==
    \A s \in Sessions :
        Saved(s) =>
            /\ Len(PairRows(s)) = Len(df[s])
            /\ \A k \in DOMAIN PairRows(s) :
                /\ MatrixRow(PairRows(s)[k]) = Normalised(df[s][k])
                /\ PairRows(s)[k].instructor_code = Val(code[s])
                /\ PairRows(s)[k].course_code = Val(selected[s]).course_code
            /\ assessments =
                   DeleteFor(assessments, Val(code[s]), Val(selected[s]).course_code)
                   \o [k \in DOMAIN df[s] |->
                         Stored(Val(code[s]), Val(selected[s]).course_code,
                                Normalised(df[s][k]).assessment_type,
                                Normalised(df[s][k]).percent_of_class_assessment,
                                Normalised(df[s][k]).ai_misuse_susceptibility,
                                Normalised(df[s][k]).modification_level)]

\* A save has completed for a matrix with a padded label and cleared cells,
\* beside stored rows of other courses
C1_Witness ==
    \E s \in Sessions :
        /\ Saved(s)
        /\ df[s][1].assessment_type # Normalised(df[s][1]).assessment_type
        /\ IsNone(df[s][2].ai_misuse_susceptibility)
        /\ Len(assessments) > Len(PairRows(s))

\* C2: a save of a matrix whose total is more than 0.5 away from 100 ends in
\* the validation error with the assessments table as it was: neither the
\* delete nor the insert is issued.
C2_RejectedSaveWritesNothing ==
    [][\A s \in Sessions :
        (save_assessments_for_course(s) /\ ~Within(Total(df[s])))
            => /\ assessments' = assessments
               /\ pc'[s] = "main"
               /\ rows'[s] = <<>>
               /\ Rejected(s)']_vars

\* A save was refused while rows of the course and of other courses are stored
C2_Witness ==
    \E s \in Sessions :
        /\ Rejected(s)
        /\ PairRows(s) # <<>>
        /\ Len(assessments) > Len(PairRows(s))

\* The pairs of the model and those with stored rows
Pairs == Instructors \X {<<"ACCT 2001">>, <<"MKTG 3000">>}
PercentSum(rs) ==
    SumSeq([k \in DOMAIN rs |->
        IF IsNone(rs[k].percent_of_class_assessment) THEN 0
        ELSE Val(rs[k].percent_of_class_assessment)])

\* C3: with one actor per course and every save given a loaded matrix with
\* only numbers edited, a pair with stored rows has exactly one stored row
\* per registry category, no other row, and a percent sum within 0.5 of 100.
C3_StoredMatrixCompleteAndBalanced ==
    \A p \in Pairs :
        LET mine == RowsFor(assessments, p[1], p[2])
        IN  mine # <<>> =>
                /\ \A i \in DOMAIN ASSESSMENT_TYPES :
                     Cardinality({k \in DOMAIN mine :
                        mine[k].assessment_type = TypeLabel(i)}) = 1
                /\ Len(mine) = Len(ASSESSMENT_TYPES)
                /\ Within(PercentSum(mine))

\* Two pairs have stored rows, one of them an edited matrix
C3_Witness ==
    /\ Cardinality({p \in Pairs : RowsFor(assessments, p[1], p[2]) # <<>>}) = 2
    /\ \E k \in DOMAIN assessments :
        /\ assessments[k].assessment_type = TypeLabel(2)
        /\ assessments[k].percent_of_class_assessment = Some(PerCent(100))

\* The matrix of a course with no stored row, written out
EmptyInputDefault == Matrix(TypeLabel(1), Some(PerCent(100)), Some(0), Some(0), Some(0))

\* C5: when delete_course_for_instructor completes, no assessment row is
\* stored for its instructor and course code and a load for that pair
\* returns the empty-input default matrix.
C5_DeletedCourseLoadsDefault ==
    [][\A s \in Sessions :
        DeleteCourseRow(s) =>
            /\ RowsFor(assessments', Val(code[s]), Val(selected[s]).course_code) = <<>>
            /\ load_assessments_for_course(
                   assessments', Val(code[s]), Val(selected[s]).course_code)
               = EmptyInputDefault]_vars

\* A course was deleted while the rows saved for another course are stored
C5_Witness ==
    \E s \in Sessions :
        /\ pc[s] = "main"
        /\ outcome[s] = Report("")
        /\ Cardinality(courses) < nextId - 1
        /\ assessments # <<>>

\* C6 as stated: a save is accepted exactly when the total (missing values
\* counted as 0) is within 0.5 of 100, and the error of a refused save
\* reports the exact total.
C6_RejectionReportsExactTotal ==
    \A s \in Sessions :
        /\ (pc[s] = "save_insert" \/ Saved(s)) => Within(Total(df[s]))
        /\ Rejected(s) =>
            /\ ~Within(Total(df[s]))
            /\ Val(outcome[s].total) * PerCent(1) = Total(df[s]) * 10

\* C6 (amended): a save is accepted exactly when the total (missing values
\* counted as 0) is within 0.5 of 100, and the error of a refused save
\* reports the total rounded to one decimal place.
C6_RejectionReportsRoundedTotal ==
    \A s \in Sessions :
        /\ (pc[s] = "save_insert" \/ Saved(s)) => Within(Total(df[s]))
        /\ Rejected(s) =>
            /\ ~Within(Total(df[s]))
            /\ 2 * Abs(Val(outcome[s].total) * PerCent(1) - Total(df[s]) * 10)
                    <= PerCent(1)

\* A total of 100.75 was refused and reported as 100.8
C6_Witness ==
    \E s \in Sessions :
        /\ Rejected(s)
        /\ Total(df[s]) = PerCent(100) + 3 * Quarter
        /\ outcome[s].total = Some(1008)

\* The load of the course, and what merge fidelity asks of the matrix a load
\* has put in the editor: it has rows of registry categories only; the rows
\* of a category with stored rows carry the values of those rows; a category
\* without a stored row has one row, with `blank` in its three numeric fields
Loaded(s) ==
    load_assessments_for_course(
        assessments, Val(code[s]), Val(selected[s]).course_code)
JustLoaded(s) == selected[s] # None /\ pc[s] = "main" /\ df[s] = Loaded(s)
MergeFidelity(s, blank) ==
    (JustLoaded(s) /\ PairRows(s) # <<>>) =>
        /\ \A k \in DOMAIN df[s] :
            \E i \in DOMAIN ASSESSMENT_TYPES : df[s][k].assessment_type = TypeLabel(i)
        /\ \A i \in DOMAIN ASSESSMENT_TYPES :
            LET hits == SelectSeq(PairRows(s),
                                  LAMBDA r : r.assessment_type = TypeLabel(i))
                got == SelectSeq(df[s], LAMBDA r : r.assessment_type = TypeLabel(i))
            IN  /\ hits # <<>> =>
                    /\ Len(got) = Len(hits)
                    /\ \A j \in DOMAIN hits :
                        /\ got[j].percent_of_class_assessment =
                                hits[j].percent_of_class_assessment
                        /\ got[j].ai_misuse_susceptibility =
                                hits[j].ai_misuse_susceptibility
                        /\ got[j].modification_level = hits[j].modification_level
                /\ hits = <<>> =>
                    /\ Len(got) = 1
                    /\ got[1].percent_of_class_assessment = blank
                    /\ got[1].ai_misuse_susceptibility = blank
                    /\ got[1].modification_level = blank

\* C7 as stated: for stored rows covering a subset of the categories, the
\* load returns the stored values on the categories present and 0.0 in the
\* three numeric fields of every category absent.
C7_AbsentCategoriesAreZero == \A s \in Sessions : MergeFidelity(s, Some(0))

\* C7 (amended): for stored rows covering a subset of the categories, the
\* load returns the stored values on the categories present and missing
\* values (NaN) in the three numeric fields of every category absent.
C7_AbsentCategoriesAreMissing == \A s \in Sessions : MergeFidelity(s, None)

\* The editor holds the load of a course with rows stored for some
\* categories and none for others
C7_Witness ==
    \E s \in Sessions :
        /\ JustLoaded(s)
        /\ \E k \in DOMAIN PairRows(s) : PairRows(s)[k].assessment_type = TypeLabel(4)
        /\ IsNone(df[s][2].percent_of_class_assessment)
        /\ df[s][4].percent_of_class_assessment = Some(PerCent(40))

\* The rows of the matrix in the editor as a save stores them for the pair
NewRows(s) ==
    [k \in DOMAIN df[s] |->
        Stored(Val(code[s]), Val(selected[s]).course_code,
               Normalised(df[s][k]).assessment_type,
               Normalised(df[s][k]).percent_of_class_assessment,
               Normalised(df[s][k]).ai_misuse_susceptibility,
               Normalised(df[s][k]).modification_level)]

\* C9: while one session saves, every step of the save leaves the rows
\* stored for the pair as they were, or leaves none, or puts the complete
\* new set where there was none: a reader never finds a mix or a part.  When
\* the save aborts between its delete and its insert, no row is stored.
C9_ReaderSeesOldNewOrNothing ==
    [][\A s \in Sessions :
        LET before == PairRows(s)
            after == RowsFor(assessments', Val(code[s]),
                             Val(selected[s]).course_code)
        IN  /\ \/ after = before
               \/ after = <<>>
               \/ pc[s] = "save_insert" /\ before = <<>> /\ after = NewRows(s)
            /\ pc[s] = "save_insert" => before = <<>>
            /\ (pc[s] = "save_insert" /\ SaveStoreError(s)) => after = <<>>]_vars

\* A save aborted after its delete: no row is stored for the pair while
\* rows of other courses are
C9_Witness ==
    \E s \in Sessions :
        /\ outcome[s].kind = "unexpected error while saving"
        /\ Within(Total(df[s]))
        /\ PairRows(s) = <<>>
        /\ assessments # <<>>

\* C10: with no row stored for a pair, the load returns 100.0 on the first
\* category and 0.0 on all others (sum exactly 100.0) with both scores 0.0
\* on every row; a save of that matrix is not refused, and once it has
\* completed the stored rows are that matrix.
C10_DefaultIsSavable ==
    \A s \in Sessions :
        /\ (JustLoaded(s) /\ PairRows(s) = <<>>) =>
            /\ Len(df[s]) = Len(ASSESSMENT_TYPES)
            /\ \A i \in DOMAIN ASSESSMENT_TYPES :
                /\ df[s][i].assessment_type = TypeLabel(i)
                /\ df[s][i].percent_of_class_assessment =
                        IF i = 1 THEN Some(PerCent(100)) ELSE Some(0)
                /\ df[s][i].ai_misuse_susceptibility = Some(0)
                /\ df[s][i].modification_level = Some(0)
            /\ PercentSum(df[s]) = PerCent(100)
        /\ df[s] = EmptyInputDefault =>
            /\ ~Rejected(s)
            /\ Saved(s) =>
                /\ Len(PairRows(s)) = Len(df[s])
                /\ \A k \in DOMAIN PairRows(s) : MatrixRow(PairRows(s)[k]) = df[s][k]

\* The default matrix, loaded for a course with no stored row, was saved
\* as it is
C10_Witness ==
    \E s \in Sessions :
        /\ Saved(s)
        /\ df[s] = EmptyInputDefault
        /\ PairRows(s) = NewRows(s)

\* C4: whatever rows are stored for a pair, the load returns exactly one row
\* per registry entry, in registry order, and no other row.
C4_LoadReturnsRegistryShape ==
    \A s \in Sessions :
        JustLoaded(s) =>
            /\ Len(df[s]) = Len(ASSESSMENT_TYPES)
            /\ \A i \in DOMAIN df[s] :
                /\ i \in DOMAIN ASSESSMENT_TYPES
                /\ df[s][i].assessment_type = TypeLabel(i)

\* C8: when two sessions save different accepted matrices for the same pair
\* and the second of them completes, the rows stored for the pair are exactly
\* the rows of the writer whose insert came last, with none of the other's.
C8_LastWriterWins ==
    [][\A s, t \in Sessions :
        (/\ s # t
         /\ SaveInsert(s)
         /\ Saved(t)
         /\ df[s] # df[t]
         /\ selected[s] = selected[t] /\ code[s] = code[t])
            => RowsFor(assessments', Val(code[s]), Val(selected[s]).course_code)
               = NewRows(s)]_vars

\* A course row exists for the instructor and course code of a stored row
HasCourseRow(r) ==
    \E c \in courses :
        /\ c.instructor_code = r.instructor_code
        /\ c.course_code = r.course_code

\* C11: with one actor, in every reachable state every stored assessment row
\* belongs to a pair that still has a course row, and between the two store
\* calls of delete_course_for_instructor the rows of its pair are already
\* gone: the assessments are deleted before the course row.
C11_NoAssessmentWithoutCourse ==
    /\ \A k \in DOMAIN assessments : HasCourseRow(assessments[k])
    /\ \A s \in Sessions : pc[s] = "delete_course" => PairRows(s) = <<>>

\* A delete stands between its two store calls: the course row is still
\* there, the rows the page had loaded for its pair are gone, rows of
\* another course are stored
C11_Witness ==
    \E s \in Sessions :
        /\ pc[s] = "delete_course"
        /\ Val(selected[s]) \in courses
        /\ loaded[s] # Loaded(s)
        /\ PairRows(s) = <<>>
        /\ assessments # <<>>

\* C12: a call of delete_course_for_instructor leaves the matrix loaded for
\* every other course row that exists once it has completed as it was before:
\* neither its delete of assessments nor its delete of the course row changes
\* what the load returns for a course row of any instructor that remains.
C12_OtherCoursesLoadTheSame ==
    [][\A s \in Sessions :
        (delete_course_for_instructor(s) \/ DeleteCourseRow(s)) =>
            \A c \in courses :
                ~(c.id = Val(selected[s]).id /\ c.instructor_code = Val(code[s]))
                    => load_assessments_for_course(
                           assessments', c.instructor_code, c.course_code)
                       = load_assessments_for_course(
                           assessments, c.instructor_code, c.course_code)]_vars

====
